---- MODULE Spec2Model ----
(***************************************************************************)
(* Model of the point-snapping engine of chili3d:                          *)
(*   - TrackingSnap      (packages/chili/src/snap/tracking/trackingSnap.ts)*)
(*   - SnapEventHandler  (same file, second half)                          *)
(* together with the collaborators they drive: the visual context          *)
(* (displayMesh/removeMesh), the AsyncController, the PubSub input channel *)
(* and the reactive Config.                                                *)
(*                                                                         *)
(* Every method is an operator from a state record to a state record (or   *)
(* to a set of them where the code's outcome is not determined); the       *)
(* actions at the end apply the public entry points to the variables.      *)
(*                                                                         *)
(* Conventions                                                             *)
(*   - an optional value (T | undefined) is a sequence of length <= 1      *)
(*   - points are integer triples <<x, y, z>>, screen points are pairs     *)
(*   - every screen distance is carried SQUARED, so that the comparisons   *)
(*     of the code (d < SnapDistance, d1 < d2, d = 0, d > 0) stay exact on *)
(*     integers                                                            *)
(***************************************************************************)
EXTENDS Integers, Sequences, FiniteSets, TLC

(***************************************************************************)
(* Bounds                                                                  *)
(***************************************************************************)
\* handles 0 .. MaxId-1 can be handed out by displayMesh in one run
MaxId == 5
\* calls of cleanupResources observed in one run
MaxCleanup == 2
\* a call observed on its own starts with at most this many handles handed out
MaxArranged == 2

Undefined == <<>>
Some(x) == <<x>>
IsDef(o) == o # <<>>
Val(o) == o[1]

Range(f) == {f[i] : i \in DOMAIN f}
Reverse(seq) == [i \in 1 .. Len(seq) |-> seq[Len(seq) + 1 - i]]

(***************************************************************************)
(* XYZ / XY arithmetic (chili-core math, used through its interface)       *)
(***************************************************************************)
sub(a, b) == <<a[1] - b[1], a[2] - b[2], a[3] - b[3]>>
add(a, b) == <<a[1] + b[1], a[2] + b[2], a[3] + b[3]>>
multiply(a, k) == <<a[1] * k, a[2] * k, a[3] * k>>
dot(a, b) == a[1] * b[1] + a[2] * b[2] + a[3] * b[3]
cross(a, b) ==
    <<a[2] * b[3] - a[3] * b[2], a[3] * b[1] - a[1] * b[3], a[1] * b[2] - a[2] * b[1]>>
lengthSq(a) == dot(a, a)
dot2(a, b) == a[1] * b[1] + a[2] * b[2]
lengthSq2(a) == dot2(a, a)

(***************************************************************************)
(* IView: two orthographic views.  "top" looks down -Z, "front" looks      *)
(* along +Y.  worldToScreen / rayAt / screenDistance are pure queries.     *)
(***************************************************************************)
Views == {"top", "front"}

worldToScreen(view, p) == IF view = "top" THEN <<p[1], p[2]>> ELSE <<p[1], p[3]>>

\* the pointer ray as a line [point, direction]
rayAt(view, x, y) ==
    IF view = "top" THEN [point |-> <<x, y, 0>>, direction |-> <<0, 0, -1>>]
    ELSE [point |-> <<x, 0, y>>, direction |-> <<0, 1, 0>>]

\* IView.screenDistance, squared
screenDistance(view, mx, my, point) ==
    LET s == worldToScreen(view, point) IN lengthSq2(<<mx - s[1], my - s[2]>>)

(***************************************************************************)
(* Line / Axis (chili-core Line; directions are unit vectors along a       *)
(* coordinate axis, so every quantity below is an integer)                 *)
(***************************************************************************)
\* Line.nearestTo(line): the point of `axis` nearest to `line`.  For unit
\* directions that are parallel or perpendicular this is the foot of
\* line.point on the axis.
nearestTo(axis, line) ==
    add(axis.point, multiply(axis.direction, dot(sub(line.point, axis.point), axis.direction)))

\* Line.intersect(line): the common point of two lines, undefined when they
\* are parallel or skew.
intersect(a, b) ==
    IF cross(a.direction, b.direction) = <<0, 0, 0>> THEN Undefined
    ELSE IF nearestTo(a, b) = nearestTo(b, a) THEN Some(nearestTo(a, b))
    ELSE Undefined

(***************************************************************************)
(* The state record the methods work on.                                   *)
(*   state, snapped, tempPoint, tempShapes   SnapEventHandler fields       *)
(*   tempLines, subscribed                   TrackingSnap._tempLines and   *)
(*                                           its Config subscription       *)
(*   enableSnapTracking                      Config.instance               *)
(*   result                                  AsyncController.result        *)
(*   live, nextId                            visual context                *)
(*   inputOpen                               PubSub input channel          *)
(*   data                                    the session's SnapData        *)
(* and what an observer of the calls has seen:                             *)
(*   guides        the displayed handles that are TrackingSnap's dashed    *)
(*                 guide lines (the others are the handler's own visuals)  *)
(*   successCalls, cancelCalls, cleanupRuns   calls made by the handler    *)
(*   ev            the last event the handler received that had an effect, *)
(*                 and what happened inside it:                            *)
(*                   kind, key   the event (key for keyDown)               *)
(*                   hadSnap     a current snap existed when the key came  *)
(*                   first       the next fresh handle when it arrived     *)
(*                   replaced    guide handles displayed when a tick began *)
(*                   stale       own handles still displayed when a tick   *)
(*                               starts to display its visuals             *)
(*                   found       the tick assigned the current snap        *)
(*                   dblRemove   removeMesh got a handle not displayed     *)
(*                   toast       showToast was published                   *)
(*                   cleaned     cleanupResources ran                      *)
(*                   calls       the calls made on the collaborators inside *)
(*                               a call under observation, in order         *)
(*                   in          the arguments of that call                 *)
(*                   r           what it returned                           *)
(***************************************************************************)

\* the observer's entry for one call: op on collaborator `by`, which returned
\* (or was handed) r; ok: the validator accepted r
called(s, op, by, r, ok) ==
    [s EXCEPT !.ev.calls = Append(@, [op |-> op, by |-> by, r |-> r, ok |-> ok])]

RECURSIVE calledTimes(_, _, _, _)
calledTimes(s, n, op, by) ==
    IF n = 0 THEN s ELSE calledTimes(called(s, op, by, <<>>, TRUE), n - 1, op, by)

(***************************************************************************)
(* Visual context: displayMesh returns a fresh handle, removeMesh releases *)
(***************************************************************************)
\* displayMesh(...): the handle returned is s.nextId
displayMesh(s, byTracking) ==
    [s EXCEPT !.live = @ \cup {s.nextId},
              !.nextId = @ + 1,
              !.guides = IF byTracking THEN @ \cup {s.nextId} ELSE @]

\* a handle that is not displayed (any more) was removed before: handles
\* only come from displayMesh
removeMesh(s, id) ==
    [s EXCEPT !.live = @ \ {id},
              !.guides = @ \ {id},
              !.ev.dblRemove = @ \/ (id \notin s.live)]

RECURSIVE removeAll(_, _)
\* ids.forEach((id) => context.removeMesh(id))
removeAll(s, ids) ==
    IF ids = <<>> THEN s ELSE removeAll(removeMesh(s, Head(ids)), Tail(ids))

(***************************************************************************)
(* TrackingSnap                                                            *)
(***************************************************************************)
\* Config.instance.SnapDistance, in the pixel unit of the views above
SnapDistance == 2

\* Array.prototype.sort with a comparator that looks at its first argument
\* only, (x) => key(x): when every key is 0 all elements compare equal and
\* the stable sort keeps the order; otherwise the comparator is inconsistent
\* and the resulting order is implementation-defined: any permutation.
sortByFirstArgument(seq, keys) ==
    IF \A i \in DOMAIN seq : keys[i] = 0 THEN {seq}
    ELSE LET n == Len(seq)
             P == {p \in [1..n -> 1..n] : \A i, j \in 1..n : i # j => p[i] # p[j]}
         IN {[i \in 1..n |-> seq[p[i]]] : p \in P}

\* rayDistanceAtScreen, squared
rayDistanceAtScreen(view, x, y, axis) ==
    LET start == worldToScreen(view, axis.point)
        vector == <<x - start[1], y - start[2]>>
        end == worldToScreen(view, add(axis.point, multiply(axis.direction, 100000)))
        dir == worldToScreen(view, axis.direction)
        d == dot2(vector, dir)
    IN IF vector = <<0, 0>> THEN 0
       ELSE IF start = end THEN lengthSq2(vector)
       ELSE lengthSq2(vector) - d * d

RECURSIVE getSnappedFromAxes_keepBehind(_, _, _, _, _)
\* a getSnappedFromAxes without the test of line 154
getSnappedFromAxes_keepBehind(axes, view, x, y, snappedName) ==
    IF axes = <<>> THEN <<>>
    ELSE LET axis == Head(axes)
             distance == rayDistanceAtScreen(view, x, y, axis)
             rest == getSnappedFromAxes_keepBehind(Tail(axes), view, x, y, snappedName)
         IN IF distance < SnapDistance * SnapDistance
            THEN <<[axis |-> axis,
                    distance |-> distance,
                    point |-> nearestTo(axis, rayAt(view, x, y)),
                    info |-> IF IsDef(snappedName) THEN Val(snappedName) ELSE axis.name,
                    isObjectTracking |-> IsDef(snappedName)]>> \o rest
            ELSE rest

RECURSIVE getSnappedFromAxes(_, _, _, _, _)
getSnappedFromAxes(axes, view, x, y, snappedName) ==
    IF axes = <<>> THEN <<>>
    ELSE LET axis == Head(axes)
             distance == rayDistanceAtScreen(view, x, y, axis)
             point == nearestTo(axis, rayAt(view, x, y))
             rest == getSnappedFromAxes(Tail(axes), view, x, y, snappedName)
         IN IF distance < SnapDistance * SnapDistance
               /\ ~(dot(sub(point, axis.point), axis.direction) < 0)
            THEN <<[axis |-> axis,
                    distance |-> distance,
                    point |-> point,
                    info |-> IF IsDef(snappedName) THEN Val(snappedName) ELSE axis.name,
                    isObjectTracking |-> IsDef(snappedName)]>> \o rest
            ELSE rest

RECURSIVE fromRays(_, _, _, _)
\* objectTrackingRays.forEach((a) => data.push(...getSnappedFromAxes(a.axes, ..., a.objectName)))
fromRays(rays, view, x, y) ==
    IF rays = <<>> THEN <<>>
    ELSE getSnappedFromAxes(Head(rays).axes, view, x, y, Some(Head(rays).objectName))
         \o fromRays(Tail(rays), view, x, y)

\* gen: what the two candidate generators return in this tick
\*   gen.axes  AxisTracking.getAxes(view, referencePoint())
\*   gen.rays  ObjectTracking.getTrackingRays(view)
detectTracking(s, view, x, y, gen) ==
    (IF s.data.referencePoint
     THEN getSnappedFromAxes(gen.axes, view, x, y, Undefined) ELSE <<>>)
    \o fromRays(gen.rays, view, x, y)

\* returns [s, id] with id optional
showTempLine(s, view, start, end) ==
    IF sub(end, start) = <<0, 0, 0>> THEN [s |-> s, id |-> Undefined]
    ELSE [s |-> displayMesh(s, TRUE), id |-> Some(s.nextId)]

\* returns [s, r]
getSnappedAndShowTracking(s, view, point, trackingData) ==
    LET l1 == showTempLine(s, view, trackingData[1].axis.point, point)
        l2 == IF Len(trackingData) = 2
              THEN showTempLine(l1.s, view, trackingData[2].axis.point, point)
              ELSE [s |-> l1.s, id |-> Undefined]
        lines == l1.id \o l2.id
    IN [s |-> [l2.s EXCEPT !.tempLines[view] = lines],
        r |-> Some([view |-> view,
                    point |-> point,
                    info |-> IF Len(trackingData) = 1 THEN trackingData[1].axis.name
                             ELSE "snap.intersection",
                    shapes |-> <<>>,
                    refPoint |-> Some(trackingData[1].axis.point),
                    distance |-> IF Len(trackingData) = 1
                                 THEN Some(lengthSq(sub(point, trackingData[1].axis.point)))
                                 ELSE Undefined])]

\* a trackingIntersectTracking that hands only the first axis on
trackingIntersectTracking_firstOnly(s, view, trackingData) ==
    LET point == intersect(trackingData[1].axis, trackingData[2].axis)
        s1 == called(s, "intersect", "axis", point, TRUE)
    IN IF IsDef(point)
       THEN getSnappedAndShowTracking(s1, view, Val(point), SubSeq(trackingData, 1, 1))
       ELSE [s |-> s1, r |-> Undefined]

\* returns [s, r] with r optional
trackingIntersectTracking(s, view, trackingData) ==
    LET point == intersect(trackingData[1].axis, trackingData[2].axis)
        s1 == called(s, "intersect", "axis", point, TRUE)
    IN IF IsDef(point)
       THEN getSnappedAndShowTracking(s1, view, Val(point), SubSeq(trackingData, 1, 2))
       ELSE [s |-> s1, r |-> Undefined]

RECURSIVE edgeIntersect(_, _)
\* ISubEdgeShape.intersect(axis): the points the edge has in common with the
\* axis; the edge is a chain of straight pieces
edgeIntersect(pieces, axis) ==
    IF pieces = <<>> THEN <<>>
    ELSE intersect(Head(pieces), axis) \o edgeIntersect(Tail(pieces), axis)

RECURSIVE intersectionPoints(_, _)
intersectionPoints(edge, trackingData) ==
    IF trackingData = <<>> THEN <<>>
    ELSE LET x == Head(trackingData)
             ps == edgeIntersect(edge.pieces, x.axis)
         IN [i \in 1..Len(ps) |-> [intersect |-> ps[i], location |-> x.axis.point]]
            \o intersectionPoints(edge, Tail(trackingData))

\* the set of values points.at(0) can have after the sort; each optional
findIntersection(data, trackingData) ==
    LET points == intersectionPoints(data.shapes[1], trackingData)
        keys == [i \in 1..Len(points) |->
                    screenDistance(data.view, data.mx, data.my, points[i].intersect)]
    IN IF points = <<>> THEN {Undefined}
       ELSE {Some(sorted[1]) : sorted \in sortByFirstArgument(points, keys)}

\* the set of possible [s, r]
shapeIntersectTracking(s, data, trackingData) ==
    IF data.shapes = <<>> \/ data.shapes[1].shapeType # "Edge"
    THEN {[s |-> s, r |-> Undefined]}
    ELSE LET s0 == calledTimes(s, Len(trackingData), "intersect", "edge") IN
         {IF ~IsDef(point) THEN [s |-> s0, r |-> Undefined]
          ELSE LET l == showTempLine(s0, data.view, Val(point).location, Val(point).intersect)
               IN IF ~IsDef(l.id) THEN [s |-> l.s, r |-> Undefined]
                  ELSE [s |-> [l.s EXCEPT !.tempLines[data.view] = l.id],
                        r |-> Some([view |-> data.view,
                                    point |-> Val(point).intersect,
                                    info |-> "snap.intersection",
                                    shapes |-> <<data.shapes[1]>>,
                                    refPoint |-> Undefined,
                                    distance |-> Undefined])]
          : point \in findIntersection(data, trackingData)}

\* a snap that gives up when a single candidate is left
snap_dropSingle(s, data, gen) ==
    IF ~s.enableSnapTracking THEN {[s |-> s, r |-> Undefined]}
    ELSE LET detected == detectTracking(s, data.view, data.mx, data.my, gen)
             s0 == called(IF s.data.referencePoint
                          THEN called(s, "getAxes", "axisTracking", <<>>, TRUE) ELSE s,
                          "getTrackingRays", "objectTracking", <<>>, TRUE)
         IN IF Len(detected) <= 1 THEN {[s |-> s0, r |-> Undefined]}
            ELSE UNION {
                   {IF IsDef(e.r) THEN e
                    ELSE LET t == trackingIntersectTracking(e.s, data.view, trackingData)
                         IN IF IsDef(t.r) THEN t
                            ELSE getSnappedAndShowTracking(t.s, data.view,
                                                           trackingData[1].point,
                                                           <<trackingData[1]>>)
                    : e \in shapeIntersectTracking(s0, data, trackingData)}
                   : trackingData \in sortByFirstArgument(
                         detected, [i \in DOMAIN detected |-> detected[i].distance])}

\* a snap that does not look at Config.enableSnapTracking
snap_ignoreConfig(s, data, gen) ==
    LET detected == detectTracking(s, data.view, data.mx, data.my, gen)
        s0 == called(IF s.data.referencePoint
                     THEN called(s, "getAxes", "axisTracking", <<>>, TRUE) ELSE s,
                     "getTrackingRays", "objectTracking", <<>>, TRUE)
    IN IF detected = <<>> THEN {[s |-> s0, r |-> Undefined]}
       ELSE UNION {
              {IF IsDef(e.r) THEN e
               ELSE IF Len(trackingData) = 1
               THEN getSnappedAndShowTracking(e.s, data.view, trackingData[1].point,
                                              <<trackingData[1]>>)
               ELSE LET t == trackingIntersectTracking(e.s, data.view, trackingData)
                    IN IF IsDef(t.r) THEN t
                       ELSE getSnappedAndShowTracking(t.s, data.view,
                                                      trackingData[1].point,
                                                      <<trackingData[1]>>)
               : e \in shapeIntersectTracking(s0, data, trackingData)}
              : trackingData \in sortByFirstArgument(
                    detected, [i \in DOMAIN detected |-> detected[i].distance])}

\* TrackingSnap.snap: the set of possible [s, r]
snap(s, data, gen) ==
    IF ~s.enableSnapTracking THEN {[s |-> s, r |-> Undefined]}
    ELSE LET detected == detectTracking(s, data.view, data.mx, data.my, gen)
             s0 == called(IF s.data.referencePoint
                          THEN called(s, "getAxes", "axisTracking", <<>>, TRUE) ELSE s,
                          "getTrackingRays", "objectTracking", <<>>, TRUE)
         IN IF detected = <<>> THEN {[s |-> s0, r |-> Undefined]}
            ELSE UNION {
                   {IF IsDef(e.r) THEN e
                    ELSE IF Len(trackingData) = 1
                    THEN getSnappedAndShowTracking(e.s, data.view, trackingData[1].point,
                                                   <<trackingData[1]>>)
                    ELSE LET t == trackingIntersectTracking(e.s, data.view, trackingData)
                         IN IF IsDef(t.r) THEN t
                            ELSE getSnappedAndShowTracking(t.s, data.view,
                                                           trackingData[1].point,
                                                           <<trackingData[1]>>)
                    : e \in shapeIntersectTracking(s0, data, trackingData)}
                   : trackingData \in sortByFirstArgument(
                         detected, [i \in DOMAIN detected |-> detected[i].distance])}

\* a removeDynamicObject that forgets the recorded handles without releasing
\* them
removeDynamicObject_forget(s) ==
    [s EXCEPT !.tempLines = [v \in Views |-> <<>>]]

removeDynamicObject(s) ==
    LET RECURSIVE each(_, _)
        each(t, vs) ==
            IF vs = {} THEN t
            ELSE LET k == CHOOSE v \in vs : TRUE
                 IN each(removeAll(t, t.tempLines[k]), vs \ {k})
    IN [each(s, Views) EXCEPT !.tempLines = [v \in Views |-> <<>>]]

\* AxisTracking.clear / ObjectTracking.clear drop the generators' caches,
\* which are inputs of every tick here
onSnapTypeChanged(s, property) ==
    IF property \in {"snapType", "enableSnapTracking", "enableSnap"}
    THEN removeDynamicObject(s)
    ELSE s

clear(s) ==
    [removeDynamicObject(s) EXCEPT !.subscribed = FALSE]

(***************************************************************************)
(* AsyncController (chili-core): single-fire.  The first of success() /    *)
(* cancel() records the result and runs the listeners registered for it;   *)
(* later calls do nothing.  The handler registers handleCancel with        *)
(* onCancelled and handleSuccess with onCompleted in its constructor.      *)
(***************************************************************************)
SnapState == {"Idle", "Snapping", "Inputting", "Cancelled", "Completed"}

RECURSIVE handleSuccess(_), handleCancel(_)

controllerSuccess(s) ==
    IF IsDef(s.result) THEN s
    ELSE handleSuccess([s EXCEPT !.result = Some("success")])

controllerCancel(s) ==
    IF IsDef(s.result) THEN s
    ELSE handleCancel([s EXCEPT !.result = Some("cancel")])

(***************************************************************************)
(* SnapEventHandler                                                        *)
(***************************************************************************)
\* protected showTempPoint: boolean = true
showTempPoint == TRUE

\* a validateSnapPoint that accepts every point
validateSnapPoint_always(s, snapped) == TRUE

\* data.validator: absent, or a predicate given by the points it rejects
validateSnapPoint(s, snapped) ==
    ~IsDef(s.data.validator) \/ snapped.point \notin Val(s.data.validator)

\* number of shapes data.preview?.(point) returns; Undefined without preview
preview(s, point) ==
    IF ~IsDef(s.data.preview) THEN Undefined
    ELSE IF IsDef(point) THEN Some(Val(s.data.preview)[2])
    ELSE Some(Val(s.data.preview)[1])

RECURSIVE displayShapes(_, _)
\* shapes.map((shape) => context.displayMesh([shape], opacity)): [s, ids]
displayShapes(s, n) ==
    IF n = 0 THEN [s |-> s, ids |-> <<>>]
    ELSE LET d == displayShapes(displayMesh(s, FALSE), n - 1)
         IN [s |-> d.s, ids |-> <<s.nextId>> \o d.ids]

showTempShape(s, point) ==
    LET s1 == IF IsDef(point) /\ showTempPoint
              THEN [displayMesh(s, FALSE) EXCEPT !.tempPoint = Some(s.nextId)]
              ELSE s
        n == preview(s1, point)
    IN IF IsDef(n)
       THEN LET d == displayShapes(s1, Val(n)) IN [d.s EXCEPT !.tempShapes = Some(d.ids)]
       ELSE [s1 EXCEPT !.tempShapes = Undefined]

\* `if (this._tempPoint)` is the truthiness of a number | undefined
removeTempShapes(s) ==
    LET s1 == IF IsDef(s.tempPoint) /\ Val(s.tempPoint) # 0
              THEN [removeMesh(s, Val(s.tempPoint)) EXCEPT !.tempPoint = Undefined]
              ELSE s
        s2 == IF IsDef(s1.tempShapes) THEN removeAll(s1, Val(s1.tempShapes)) ELSE s1
    IN [s2 EXCEPT !.tempShapes = Undefined]

RECURSIVE forEachSnap(_, _, _)
\* this.snaps.forEach((snap) => snap.<method>()); only TrackingSnap keeps
\* state of its own
forEachSnap(s, snaps, method) ==
    IF snaps = <<>> THEN s
    ELSE LET s1 == IF Head(snaps) # "tracking" THEN s
                   ELSE IF method = "removeDynamicObject" THEN removeDynamicObject(s)
                   ELSE clear(s)
         IN forEachSnap(s1, Tail(snaps), method)

removeTempVisuals(s) ==
    forEachSnap(removeTempShapes(s), s.data.snaps, "removeDynamicObject")

clearSnapPrompt(s) == [s EXCEPT !.floatTip = FALSE]

clearInput(s) == [s EXCEPT !.inputOpen = FALSE]

cleanupResources(s) ==
    LET s1 == [s EXCEPT !.cleanupRuns = @ + 1, !.ev.cleaned = TRUE]
    IN forEachSnap(removeTempVisuals(clearInput(clearSnapPrompt(s1))),
                   s.data.snaps, "clear")

handleSuccess(s) ==
    IF s.state = "Completed" THEN s
    ELSE cleanupResources(
             controllerSuccess([s EXCEPT !.state = "Completed", !.successCalls = @ + 1]))

handleCancel(s) ==
    IF s.state = "Cancelled" THEN s
    ELSE cleanupResources(
             controllerCancel([s EXCEPT !.state = "Cancelled", !.cancelCalls = @ + 1]))

dispose(s) == [s EXCEPT !.snapped = Undefined, !.state = "Completed"]

\* in: the tick's inputs
\*   view, x, y   the event's view and offsetX / offsetY
\*   when         what featurePoints[i].when() returns
\*   shapes       what view.detectShapes returns
\*   other        what the snap() of a provider other than TrackingSnap returns
\*   gen          what the candidate generators return
\* a findNearestFeaturePoint that does not ask the guards
findNearestFeaturePoint_unguarded(s, in) ==
    LET fps == s.data.featurePoints
        within == {i \in DOMAIN fps :
                      screenDistance(in.view, in.x, in.y, fps[i].point)
                          < SnapDistance * SnapDistance}
    IN IF within = {} THEN Undefined
       ELSE Some(fps[CHOOSE i \in within :
                       \A j \in within :
                           screenDistance(in.view, in.x, in.y, fps[i].point)
                               <= screenDistance(in.view, in.x, in.y, fps[j].point)])

findNearestFeaturePoint(s, in) ==
    LET fps == s.data.featurePoints
        RECURSIVE loop(_, _, _)
        \* minDist = Number.MAX_VALUE is an absent minimum here
        loop(i, minDist, nearest) ==
            IF i > Len(fps) THEN [minDist |-> minDist, nearest |-> nearest]
            ELSE IF fps[i].hasWhen /\ ~in.when[i] THEN loop(i + 1, minDist, nearest)
            ELSE LET dist == screenDistance(in.view, in.x, in.y, fps[i].point)
                 IN IF ~IsDef(minDist) \/ dist < Val(minDist)
                    THEN loop(i + 1, Some(dist), Some(fps[i]))
                    ELSE loop(i + 1, minDist, nearest)
        r == loop(1, Undefined, Undefined)
    IN IF IsDef(r.minDist) /\ Val(r.minDist) < SnapDistance * SnapDistance
       THEN r.nearest ELSE Undefined

detectShapes(s, in) == [shapes |-> in.shapes, view |-> in.view, mx |-> in.x, my |-> in.y]

\* the set of possible states after findSnapPoint
findSnapPoint(s, in) ==
    LET featurePoint == findNearestFeaturePoint(s, in)
        detected == detectShapes(s, in)
        RECURSIVE chain(_, _)
        chain(t, snaps) ==
            IF snaps = <<>> THEN {t}
            ELSE LET outs == IF Head(snaps) = "tracking" THEN snap(t, detected, in.gen)
                             ELSE {[s |-> t, r |-> in.other]}
                 IN UNION {LET ok == IsDef(o.r) /\ validateSnapPoint(o.s, Val(o.r))
                               t1 == called(o.s, "snap", Head(snaps), o.r, ok)
                           IN IF ok
                              THEN {[t1 EXCEPT !.snapped = o.r, !.ev.found = TRUE]}
                              ELSE chain(t1, Tail(snaps))
                           : o \in outs}
    IN IF IsDef(featurePoint)
       THEN {[s EXCEPT !.snapped = Some([view |-> in.view,
                                          point |-> Val(featurePoint).point,
                                          info |-> Val(featurePoint).prompt,
                                          shapes |-> <<>>,
                                          refPoint |-> Undefined,
                                          distance |-> Undefined]),
                      !.ev.found = TRUE]}
       ELSE chain(s, s.data.snaps)

IsSnapCall(c) == c.op = "snap"
\* the snap() calls recorded in s
snapCalls_of(s) == SelectSeq(s.ev.calls, IsSnapCall)

\* the providers that define the optional handleSnapped: TrackingSnap does
\* (line 46); the other provider of the sessions here does not
DefinesHandleSnapped == {"tracking"}

RECURSIVE forEachHandleSnapped(_, _)
\* this.snaps.forEach((snap) => snap.handleSnapped?.(document, this._snapped)).
\* TrackingSnap.handleSnapped hands the snap to ObjectTracking's timer,
\* which keeps no state of the handler or of TrackingSnap
forEachHandleSnapped(s, snaps) ==
    IF snaps = <<>> THEN s
    ELSE forEachHandleSnapped(
             IF Head(snaps) \in DefinesHandleSnapped
             THEN called(s, "handleSnapped", Head(snaps), s.snapped, TRUE) ELSE s,
             Tail(snaps))

\* a setSnapped that tells only the provider whose result was taken
setSnapped_onlyWinner(s, in) ==
    {IF snapCalls_of(t) # <<>> /\ snapCalls_of(t)[Len(snapCalls_of(t))].ok
     THEN forEachHandleSnapped(t, <<snapCalls_of(t)[Len(snapCalls_of(t))].by>>)
     ELSE t
     : t \in findSnapPoint(s, in)}

setSnapped(s, in) ==
    {forEachHandleSnapped(t, t.data.snaps) : t \in findSnapPoint(s, in)}

\* formatSnapPrompt(snapped) is defined (data.prompt is not supplied)
formatSnapPrompt(snapped) ==
    LET distance == IF IsDef(snapped.distance) THEN snapped.distance
                    ELSE IF IsDef(snapped.refPoint)
                    THEN Some(lengthSq(sub(Val(snapped.refPoint), snapped.point)))
                    ELSE Undefined
        prompt == IsDef(distance) /\ Val(distance) # 0
    IN prompt \/ snapped.info # ""

showSnapPrompt(s, snapped) ==
    IF ~formatSnapPrompt(snapped) THEN clearSnapPrompt(s)
    ELSE [s EXCEPT !.floatTip = TRUE]

updateSnapPoint(s, in) ==
    {IF IsDef(t.snapped) THEN showSnapPrompt(t, Val(t.snapped)) ELSE clearSnapPrompt(t)
     : t \in setSnapped(s, in)}

updateVisualFeedback(s) ==
    showTempShape(s, IF IsDef(s.snapped) THEN Some(Val(s.snapped).point) ELSE Undefined)

\* the handles of the handler's own visuals that are still displayed
ownLive(s) == s.live \ s.guides

\* the set of possible states after pointerMove
pointerMove(s, in) ==
    LET s1 == removeTempVisuals([s EXCEPT !.state = "Snapping", !.ev.replaced = s.guides])
        s2 == [s1 EXCEPT !.ev.stale = ownLive(s1)]
    IN {updateVisualFeedback(t) : t \in updateSnapPoint(s2, in)}

\* a pointerDown that does not look at the current snap
pointerDown_unguarded(s, event) ==
    IF event.pointerType = "mouse" /\ event.button = 0 THEN handleSuccess(s) ELSE s

pointerDown(s, event) ==
    IF event.pointerType = "mouse" /\ event.button = 0
    THEN IF IsDef(s.snapped) THEN handleSuccess(s)
         ELSE [s EXCEPT !.ev.toast = TRUE]
    ELSE s

pointerUp(s, event) ==
    IF event.pointerType # "mouse" /\ event.isPrimary /\ IsDef(s.snapped)
    THEN handleSuccess(s)
    ELSE s

pointerOut(s) == [s EXCEPT !.snapped = Undefined]

NumericKeys == {"#", "-", "0", "1", "2", "3", "4", "5", "6", "7", "8", "9"}

handleNumericInput(s, key) ==
    IF key \notin NumericKeys THEN s
    ELSE [s EXCEPT !.state = "Inputting", !.inputOpen = TRUE]

\* a keyDown that completes without clearing the current snap
keyDown_keepSnap(s, key) ==
    IF key = "Escape" THEN handleCancel(s)
    ELSE IF key = "Enter" THEN handleSuccess(s)
    ELSE handleNumericInput(s, key)

keyDown(s, key) ==
    IF key = "Escape" THEN handleCancel([s EXCEPT !.snapped = Undefined])
    ELSE IF key = "Enter" THEN handleSuccess([s EXCEPT !.snapped = Undefined])
    ELSE handleNumericInput(s, key)

\* a callback that does not ask inputError
inputSubmitted_ignoreError(s, error, point) ==
    handleSuccess([s EXCEPT !.snapped = Some(point)])

\* the callback handed to showInput; error is what inputError(text) returns,
\* point what getPointFromInput(view, text) returns
inputSubmitted(s, error, point) ==
    IF error THEN s
    ELSE handleSuccess([s EXCEPT !.snapped = Some(point)])

\* new SnapEventHandler(document, controller, snaps, data)
\* a constructor that does not prime the preview
constructor_noPreview(s) == s

constructor(s) == showTempShape(s, Undefined)

(***************************************************************************)
(* Config.instance: a property is set and the subscribers are notified     *)
(***************************************************************************)
configChanged(s, property) ==
    LET s1 == IF property = "enableSnapTracking"
              THEN [s EXCEPT !.enableSnapTracking = ~@] ELSE s
    IN IF s1.subscribed
       THEN onSnapTypeChanged(s1, property)
       ELSE s1

(***************************************************************************)
(* Inputs                                                                  *)
(***************************************************************************)
AxisX == [point |-> <<0, 0, 0>>, direction |-> <<1, 0, 0>>, name |-> "axis.x"]
AxisY == [point |-> <<0, 0, 0>>, direction |-> <<0, 1, 0>>, name |-> "axis.y"]
ObjectRay == [point |-> <<2, 2, 0>>, direction |-> <<0, -1, 0>>, name |-> "axis.y"]
Edge == [shapeType |-> "Edge",
         pieces |-> <<[point |-> <<1, 0, 0>>, direction |-> <<0, 1, 0>>]>>]

Pointers == {<<1, 0>>, <<2, 1>>, <<2, 2>>}

PointResult(view, point) ==
    [view |-> view, point |-> point, info |-> "", shapes |-> <<>>,
     refPoint |-> Undefined, distance |-> Undefined]

\* the surroundings of a tick: guards of the feature points, shapes under
\* the pointer, candidate axes
OnlyAxes ==
    [when |-> <<TRUE, TRUE>>, shapes |-> <<>>,
     gen |-> [axes |-> <<AxisX, AxisY>>, rays |-> <<>>]]
WithObjectRay ==
    [when |-> <<FALSE, TRUE>>, shapes |-> <<>>,
     gen |-> [axes |-> <<AxisX, AxisY>>,
              rays |-> <<[axes |-> <<ObjectRay>>, objectName |-> "obj"]>>]]
WithEdge ==
    [when |-> <<TRUE, TRUE>>, shapes |-> <<Edge>>,
     gen |-> [axes |-> <<AxisX, AxisY>>, rays |-> <<>>]]

Tick(v, p, c, o) ==
    [view |-> v, x |-> p[1], y |-> p[2], when |-> c.when, shapes |-> c.shapes,
     gen |-> c.gen,
     other |-> IF o THEN Some(PointResult(v, <<1, 0, 0>>)) ELSE Undefined]

\* one axis near; two axes crossing at the origin; no candidate (the first
\* feature point under the pointer); an axis and an object ray crossing; an
\* edge crossing an axis; a result of the other provider; the other view
TickInputs ==
    {Tick("top", p, OnlyAxes, FALSE) : p \in Pointers}
    \cup {Tick("top", <<2, 1>>, WithObjectRay, FALSE),
          Tick("top", <<1, 0>>, WithEdge, FALSE),
          Tick("top", <<2, 1>>, OnlyAxes, TRUE),
          Tick("front", <<2, 1>>, OnlyAxes, FALSE)}

FeaturePoints ==
    <<[point |-> <<2, 2, 0>>, prompt |-> "prompt.polygon.close", hasWhen |-> TRUE],
      [point |-> <<0, 2, 0>>, prompt |-> "prompt.start", hasWhen |-> FALSE]>>

\* the sessions: preview as in Line.linePreview (1 shape without a point, 2
\* with one), validator rejecting the points already picked as Polygon's does
\* (the first of them is the feature point that closes the polygon), feature
\* points, provider list
Sessions ==
    {[preview |-> Undefined, validator |-> Undefined, featurePoints |-> <<>>,
      snaps |-> <<"object", "tracking">>, referencePoint |-> TRUE],
     [preview |-> Some(<<1, 2>>), validator |-> Some({<<1, 0, 0>>, <<2, 2, 0>>}),
      featurePoints |-> FeaturePoints,
      snaps |-> <<"object", "tracking">>, referencePoint |-> TRUE]}

Keys == {"Escape", "Enter", "5", "a"}
PointerTypes == {"mouse", "touch"}
Buttons == {0, 2}
Properties == {"snapType", "enableSnapTracking", "enableSnap", "language"}

(***************************************************************************)
(* Tracing and TraceUploader (chili-core/src/foundation/tracing.ts).       *)
(* The methods work on a record t:                                         *)
(*   nodes, currentId                      Tracing fields; nodes is the    *)
(*                                         Map in insertion order          *)
(*   synced, lastSyncedId, changes         TraceUploader fields; the empty *)
(*                                         string of lastSyncedId is the   *)
(*                                         absent value                    *)
(*   requests                              the fetch calls not yet settled *)
(* and what an observer of the calls has seen:                             *)
(*   createCalls    the number of createData calls                         *)
(*   tev            the last call: op, and whether it threw                *)
(***************************************************************************)
\* the number of history records of a run
MaxRecords == 3
\* uuidv4() of the root node; the records' ids are other uuids
RootId == 0
RecordIds == 1 .. MaxRecords
\* an id no record of this Tracing has
ForeignId == -1

\* Map.has / Map.get / Map.set on the node list
mapHas(nodes, id) == \E i \in DOMAIN nodes : nodes[i].id = id
mapGet(nodes, id) ==
    IF mapHas(nodes, id)
    THEN Some(nodes[CHOOSE i \in DOMAIN nodes : nodes[i].id = id])
    ELSE Undefined
mapSet(nodes, node) ==
    IF mapHas(nodes, node.id)
    THEN [i \in DOMAIN nodes |-> IF nodes[i].id = node.id THEN node ELSE nodes[i]]
    ELSE Append(nodes, node)

TracingNew ==
    [nodes |-> <<[id |-> RootId, parentId |-> Undefined, children |-> <<>>]>>,
     currentId |-> RootId,
     synced |-> FALSE, lastSyncedId |-> Undefined, changes |-> <<>>,
     requests |-> {},
     createCalls |-> 0,
     tev |-> [op |-> "constructor", threw |-> FALSE]]

\* the nodes in Map order; the records' payload is not part of the model
serialize(t) == t.nodes

createData(t) ==
    [t EXCEPT !.createCalls = @ + 1,
              !.requests = @ \cup {[method |-> "POST", payload |-> serialize(t),
                                    commits |-> <<>>]}]

\* a syncData with its test of lastSyncedId the wrong way round
syncData_inverted(t) ==
    IF IsDef(t.lastSyncedId) THEN createData(t)
    ELSE [t EXCEPT !.requests = @ \cup {[method |-> "PATCH", payload |-> <<>>,
                                         commits |-> t.changes]}]

\* up to the first await
syncData(t) ==
    IF ~IsDef(t.lastSyncedId) THEN createData(t)
    ELSE [t EXCEPT !.requests = @ \cup {[method |-> "PATCH", payload |-> <<>>,
                                         commits |-> t.changes]}]

commitChange(t, change) ==
    syncData([t EXCEPT !.changes = Append(@, [parentId |-> change.parentId,
                                              change |-> change]),
                       !.synced = FALSE])

update(t, change) ==
    IF ~IsDef(change) THEN t ELSE commitChange(t, Val(change))

\* a push that leaves the current id where it was
push_keepCurrent(t, id) ==
    LET node == [id |-> id, parentId |-> Some(t.currentId), children |-> <<>>]
        parent == mapGet(t.nodes, t.currentId)
        nodes1 == IF IsDef(parent)
                  THEN mapSet(t.nodes,
                              [Val(parent) EXCEPT !.children = Append(@, id)])
                  ELSE t.nodes
    IN update([t EXCEPT !.nodes = mapSet(nodes1, node)], Some(node))

\* a push that starts the parent's children list anew
push_overwrite(t, id) ==
    LET node == [id |-> id, parentId |-> Some(t.currentId), children |-> <<>>]
        parent == mapGet(t.nodes, t.currentId)
        nodes1 == IF IsDef(parent)
                  THEN mapSet(t.nodes, [Val(parent) EXCEPT !.children = <<id>>])
                  ELSE t.nodes
    IN update([t EXCEPT !.nodes = mapSet(nodes1, node), !.currentId = id], Some(node))

push(t, id) ==
    LET node == [id |-> id, parentId |-> Some(t.currentId), children |-> <<>>]
        parent == mapGet(t.nodes, t.currentId)
        nodes1 == IF IsDef(parent)
                  THEN mapSet(t.nodes,
                              [Val(parent) EXCEPT !.children = Append(@, id)])
                  ELSE t.nodes
    IN update([t EXCEPT !.nodes = mapSet(nodes1, node), !.currentId = id], Some(node))

\* this.nodes.get(this.currentId)! is undefined for an id the Map does not
\* have, and reading its parentId throws
undo(t) ==
    LET node == mapGet(t.nodes, t.currentId)
    IN IF ~IsDef(node) THEN [t EXCEPT !.tev.threw = TRUE]
       ELSE IF IsDef(Val(node).parentId)
       THEN update([t EXCEPT !.currentId = Val(Val(node).parentId)], Undefined)
       ELSE update(t, Undefined)

redo(t, childId) == update([t EXCEPT !.currentId = childId], Undefined)

\* what a fetch can settle to: res.ok, status 409, another status, rejection
Outcomes == {"ok", "conflict", "failed", "error"}

\* the rest of createData after its await
createDataSettled(t, req, outcome) ==
    LET t1 == [t EXCEPT !.requests = @ \ {req}]
    IN IF outcome \in {"failed", "error"} THEN t1
       ELSE [t1 EXCEPT !.synced = TRUE,
                       !.lastSyncedId = Some(req.payload[Len(req.payload)].id),
                       !.changes = <<>>]

\* the rest of syncData after its await; reading the last element of an
\* empty changes array throws inside the try block
syncDataSettled(t, req, outcome) ==
    LET t1 == [t EXCEPT !.requests = @ \ {req}]
    IN IF outcome # "ok" \/ t.changes = <<>> THEN t1
       ELSE [t1 EXCEPT !.lastSyncedId = Some(t.changes[Len(t.changes)].change.id),
                       !.changes = <<>>,
                       !.synced = TRUE]

settled(t, req, outcome) ==
    IF req.method = "POST" THEN createDataSettled(t, req, outcome)
    ELSE syncDataSettled(t, req, outcome)

(***************************************************************************)
(* Polygon (create.polygon command).  The methods work on a record p:      *)
(*   stepData      the picked SnapResults, here their points               *)
(*   controller    this.controller: its number and its result status       *)
(*   returned      what executeSteps has returned, absent while it runs    *)
(* and what an observer has seen:                                          *)
(*   pev           the number of AsyncControllers created and how the last *)
(*                 pick ended                                              *)
(* Points lie on a grid whose spacing is far above the tolerances the      *)
(* code compares distances with (Precision.Distance, 0.001), so two points *)
(* are within a tolerance exactly when they are equal.                     *)
(***************************************************************************)
\* the number of picks of a run
MaxPicks == 4
PickPoints == {<<0, 0, 0>>, <<1, 0, 0>>, <<1, 1, 0>>, <<0, 1, 0>>}

PolygonNew ==
    [stepData |-> <<>>, controller |-> Undefined, returned |-> Undefined,
     pev |-> [controllers |-> 0, kind |-> "none"]]

\* a.distanceTo(b) against a tolerance
near(a, b) == dot(sub(a, b), sub(a, b)) = 0

polygonValidator(p, point) ==
    \A i \in DOMAIN p.stepData : ~near(point, p.stepData[i].point)

\* the PointSnapData of the second step: the validator by the points it
\* rejects, the closing feature point and the value of its when()
getNextData(p) ==
    [validator |-> Some({point \in PickPoints : ~polygonValidator(p, point)}),
     featurePoints |-> <<[point |-> p.stepData[1].point,
                          prompt |-> "prompt.polygon.close", hasWhen |-> TRUE]>>,
     when |-> <<Len(p.stepData) > 2>>]

\* getSteps: the first step has no data of its own, the second asks
\* getNextData each time it is executed
firstStep == [validator |-> Undefined, featurePoints |-> <<>>, when |-> <<>>]
secondStep(p) == getNextData(p)

isClose(p, picked) ==
    Len(p.stepData) > 1 /\ near(p.stepData[1].point, picked.point)

\* what step.execute(document, controller) can resolve with in a session with
\* data d: the snap of the handler when the controller succeeded, nothing
\* otherwise.  The ways a SnapEventHandler session ends:
\*   pointer   press on a provider's snap, which validateSnapPoint accepted
\*   feature   press on a feature point whose when() holds
\*   input     submitted text: getPointFromInput(view, text), not validated
\*   Enter     success without a snap;  Escape   cancel
execute(d) ==
    {[picked |-> Some([point |-> point]), status |-> "success", kind |-> "pointer"] :
        point \in {q \in PickPoints : validateSnapPoint([data |-> d], [point |-> q])}}
    \cup {[picked |-> Some([point |-> d.featurePoints[i].point]), status |-> "success",
           kind |-> "feature"] :
              i \in {j \in DOMAIN d.featurePoints :
                        ~d.featurePoints[j].hasWhen \/ d.when[j]}}
    \cup {[picked |-> Some([point |-> point]), status |-> "success", kind |-> "input"] :
              point \in PickPoints}
    \cup {[picked |-> Undefined, status |-> "success", kind |-> "Enter"],
          [picked |-> Undefined, status |-> "cancel", kind |-> "Escape"]}

\* the step of the next iteration: firstStep holds in the first iteration
\* only, the one that starts with nothing picked
stepOf(p) == IF p.pev.controllers = 0 THEN firstStep ELSE secondStep(p)

\* one iteration of the loop of executeSteps, the pick resolving with out
executeSteps(p, out) ==
    LET p1 == [p EXCEPT !.controller = Some([id |-> p.pev.controllers + 1,
                                             status |-> out.status]),
                        !.pev = [controllers |-> p.pev.controllers + 1,
                                 kind |-> out.kind]]
    IN IF ~IsDef(out.picked)
       THEN [p1 EXCEPT !.returned = Some(Val(p1.controller).status = "success")]
       ELSE LET p2 == [p1 EXCEPT !.stepData = Append(@, Val(out.picked))]
            IN IF isClose(p2, Val(out.picked))
               THEN [p2 EXCEPT !.returned = Some(TRUE)]
               ELSE p2

(***************************************************************************)
(* State                                                                   *)
(***************************************************************************)
VARIABLES state, snapped, tempPoint, tempShapes, tempLines, subscribed,
          enableSnapTracking, result, live, nextId, inputOpen, floatTip, data,
          guides, successCalls, cancelCalls, cleanupRuns, ev

\* the document's Tracing and its TraceUploader
VARIABLES nodes, currentId, synced, lastSyncedId, changes, requests,
          createCalls, tev

VARIABLES stepData, controller, returned, pev

polygonVars == <<stepData, controller, returned, pev>>

tracingVars == <<nodes, currentId, synced, lastSyncedId, changes, requests,
                 createCalls, tev>>

vars == <<state, snapped, tempPoint, tempShapes, tempLines, subscribed,
          enableSnapTracking, result, live, nextId, inputOpen, floatTip, data,
          guides, successCalls, cancelCalls, cleanupRuns, ev, tracingVars,
          polygonVars>>

\* new Tracing()
PolygonInit ==
    /\ stepData = PolygonNew.stepData
    /\ controller = PolygonNew.controller
    /\ returned = PolygonNew.returned
    /\ pev = PolygonNew.pev

TracingInit ==
    /\ nodes = TracingNew.nodes
    /\ currentId = TracingNew.currentId
    /\ synced = TracingNew.synced
    /\ lastSyncedId = TracingNew.lastSyncedId
    /\ changes = TracingNew.changes
    /\ requests = TracingNew.requests
    /\ createCalls = TracingNew.createCalls
    /\ tev = TracingNew.tev

NewEv(kind) ==
    [kind |-> kind, key |-> "", hadSnap |-> FALSE,
     first |-> nextId, replaced |-> {}, stale |-> {}, found |-> FALSE,
     dblRemove |-> FALSE, toast |-> FALSE, cleaned |-> FALSE,
     calls |-> <<>>, in |-> <<>>, r |-> <<>>]

St ==
    [state |-> state, snapped |-> snapped, tempPoint |-> tempPoint,
     tempShapes |-> tempShapes, tempLines |-> tempLines, subscribed |-> subscribed,
     enableSnapTracking |-> enableSnapTracking, result |-> result, live |-> live,
     nextId |-> nextId, inputOpen |-> inputOpen, floatTip |-> floatTip, data |-> data,
     guides |-> guides, successCalls |-> successCalls,
     cancelCalls |-> cancelCalls, cleanupRuns |-> cleanupRuns, ev |-> ev]

\* the state at the start of an event
Begin(e) == [St EXCEPT !.ev = e]

Assign(s) ==
    /\ state' = s.state
    /\ snapped' = s.snapped
    /\ tempPoint' = s.tempPoint
    /\ tempShapes' = s.tempShapes
    /\ tempLines' = s.tempLines
    /\ subscribed' = s.subscribed
    /\ enableSnapTracking' = s.enableSnapTracking
    /\ result' = s.result
    /\ live' = s.live
    /\ nextId' = s.nextId
    /\ inputOpen' = s.inputOpen
    /\ floatTip' = s.floatTip
    /\ data' = s.data
    /\ guides' = s.guides
    /\ successCalls' = s.successCalls
    /\ cancelCalls' = s.cancelCalls
    /\ cleanupRuns' = s.cleanupRuns
    /\ ev' = s.ev
    /\ UNCHANGED <<tracingVars, polygonVars>>

Bounded(s) == s.nextId <= MaxId /\ s.cleanupRuns <= MaxCleanup

\* the event ends in s; an event without any effect is not recorded, and the
\* calls made inside an event are not part of the session's record
Deliver(s) ==
    /\ Bounded(s)
    /\ IF [s EXCEPT !.ev = ev] = St THEN UNCHANGED vars
       ELSE Assign([s EXCEPT !.ev.calls = <<>>])

\* a visual context that has displayed nothing yet, a TrackingSnap just
\* constructed (subscribed to Config) and the handler's field initialisers
Fresh(d) ==
    [state |-> "Idle", snapped |-> Undefined, tempPoint |-> Undefined,
     tempShapes |-> Undefined, tempLines |-> [v \in Views |-> <<>>],
     subscribed |-> TRUE, enableSnapTracking |-> TRUE, result |-> Undefined,
     live |-> {}, nextId |-> 0, inputOpen |-> FALSE, floatTip |-> FALSE,
     data |-> d, guides |-> {}, successCalls |-> 0,
     cancelCalls |-> 0, cleanupRuns |-> 0,
     ev |-> [kind |-> "constructor", key |-> "", hadSnap |-> FALSE,
             first |-> 0, replaced |-> {}, stale |-> {}, found |-> FALSE,
             dblRemove |-> FALSE, toast |-> FALSE, cleaned |-> FALSE,
             calls |-> <<>>, in |-> <<>>, r |-> <<>>]]

Init ==
    \E d \in Sessions :
        LET s == constructor(Fresh(d))
        IN /\ state = s.state
           /\ snapped = s.snapped
           /\ tempPoint = s.tempPoint
           /\ tempShapes = s.tempShapes
           /\ tempLines = s.tempLines
           /\ subscribed = s.subscribed
           /\ enableSnapTracking = s.enableSnapTracking
           /\ result = s.result
           /\ live = s.live
           /\ nextId = s.nextId
           /\ inputOpen = s.inputOpen
           /\ floatTip = s.floatTip
           /\ data = s.data
           /\ guides = s.guides
           /\ successCalls = s.successCalls
           /\ cancelCalls = s.cancelCalls
           /\ cleanupRuns = s.cleanupRuns
           /\ ev = s.ev
           /\ TracingInit
           /\ PolygonInit

(***************************************************************************)
(* Actions: one per event the handler, the controller or Config receives   *)
(***************************************************************************)
PointerMove ==
    \E in \in TickInputs :
        \E s \in pointerMove(Begin(NewEv("pointerMove")), in) : Deliver(s)

PointerDownEvent(pt, b) ==
    /\ Deliver(pointerDown(Begin(NewEv("pointerDown")), [pointerType |-> pt, button |-> b]))

PointerDown == \E pt \in PointerTypes, b \in Buttons : PointerDownEvent(pt, b)

PointerUpEvent(pt, ip) ==
    /\ Deliver(pointerUp(Begin(NewEv("pointerUp")), [pointerType |-> pt, isPrimary |-> ip]))

PointerUp == \E pt \in PointerTypes, ip \in BOOLEAN : PointerUpEvent(pt, ip)

PointerOut ==
    /\ Deliver(pointerOut(Begin(NewEv("pointerOut"))))

KeyDownEvent(key) ==
    /\ Deliver(keyDown(Begin([NewEv("keyDown") EXCEPT !.key = key,
                                                     !.hadSnap = IsDef(snapped)]), key))

KeyDown == \E key \in Keys : KeyDownEvent(key)

\* what getPointFromInput returns for the submitted text
SubmittedPoint == PointResult("top", <<1, 1, 0>>)

\* the user submits the text of the input opened by showInput
InputSubmittedEvent(error) ==
    /\ inputOpen
    /\ Deliver(inputSubmitted(Begin(NewEv("inputSubmitted")), error, SubmittedPoint))

InputSubmitted == \E error \in BOOLEAN : InputSubmittedEvent(error)

Dispose ==
    /\ Deliver(dispose(Begin(NewEv("dispose"))))

\* someone else resolves the controller (Polygon.confirm calls success())
ControllerSuccess ==
    /\ Deliver(controllerSuccess(Begin(NewEv("onCompleted"))))

ControllerCancel ==
    /\ Deliver(controllerCancel(Begin(NewEv("onCancelled"))))

\* Config notifies TrackingSnap, not the handler
ConfigurationSet(property) ==
    /\ Deliver(configChanged(St, property))

ConfigChanged == \E property \in Properties : ConfigurationSet(property)

Next ==
    \/ PointerMove
    \/ PointerDown
    \/ PointerUp
    \/ PointerOut
    \/ KeyDown
    \/ InputSubmitted
    \/ Dispose
    \/ ControllerSuccess
    \/ ControllerCancel
    \/ ConfigChanged

Spec == Init /\ [][Next]_vars

(***************************************************************************)
(* Properties                                                              *)
(***************************************************************************)
Terminal == {"Completed", "Cancelled"}

\* the events the handler receives from the view, the input channel and the
\* controller
HandlerEvents ==
    {"pointerMove", "pointerDown", "pointerUp", "keyDown", "inputSubmitted",
     "onCompleted", "onCancelled"}

\* the handles TrackingSnap has recorded, over all views
recordedLines == UNION {Range(tempLines[v]) : v \in Views}

\* C1: once the state is Completed or Cancelled, no pointer, key, input or
\* controller event changes it again.
C1_TerminalAbsorbing ==
    [][(state \in Terminal /\ ev'.kind \in HandlerEvents) => state' = state]_vars

\* C2: per session the handler never calls both controller.success() and
\* controller.cancel().
C2_SingleOutcome == ~(successCalls > 0 /\ cancelCalls > 0)

\* C3: once the handler has cancelled, no later event makes it call
\* controller.success(), and cleanupResources has run exactly once.
C3_CancelFirst ==
    /\ [][cancelCalls > 0 => successCalls' = successCalls]_vars
    /\ [](cancelCalls > 0 => cleanupRuns = 1)

\* C4: after every pointerMove the guide handles still displayed are exactly
\* the handles recorded in _tempLines, all of them created by that tick (and
\* at every moment the displayed guides are the recorded ones).
C4_GuideHandles ==
    /\ guides = recordedLines
    /\ \A v \in Views : Cardinality(Range(tempLines[v])) = Len(tempLines[v])
    /\ ev.kind = "pointerMove" =>
          /\ guides \subseteq ev.first .. (nextId - 1)
          /\ ev.replaced \cap live = {}

\* a second tick has replaced the guide of the tick before by two of its own
C4_Witness ==
    /\ ev.kind = "pointerMove"
    /\ ev.replaced # {}
    /\ Cardinality(guides) = 2
    /\ guides = Range(tempLines["top"])

\* C5: in every pointerMove the point marker and the preview shapes of the
\* tick before (or of the constructor) have been removed when the tick
\* displays its own, whatever handles displayMesh returned.
C5_ReleaseBeforeReacquire == ev.kind = "pointerMove" => ev.stale = {}

\* C6: in a terminal state, however reached, every handle displayMesh
\* returned has been passed to removeMesh.
C6_BalancedCreateRemove == state \in Terminal => live = {}

\* C7: a cleanup that directly follows a cleanup leaves the same (empty) set
\* of displayed handles and removes no handle that was removed already.
C7_CleanupIdempotent ==
    [][(ev.cleaned /\ ev'.cleaned /\ cleanupRuns' = cleanupRuns + 1)
          => (live' = live /\ live' = {} /\ ~ev'.dblRemove)]_vars

\* C8: after a pointerMove in which neither a feature point qualified nor a
\* provider returned an accepted result, there is no current snap.
C8_SnapRecomputed == (ev.kind = "pointerMove" /\ ~ev.found) => ~IsDef(snapped)

\* what a pointer press / release leaves alone when nothing is snapped
Untouched ==
    UNCHANGED <<state, snapped, tempPoint, tempShapes, tempLines, subscribed, result,
                live, guides, nextId, inputOpen, successCalls, cancelCalls, cleanupRuns>>

\* C9: in a non-terminal state a primary mouse press or a primary non-mouse
\* release completes the session with success exactly when a current snap
\* exists; without one nothing changes (the press only publishes the toast).
C9_PointerSuccess ==
    [][state \notin Terminal =>
          /\ (PointerDownEvent("mouse", 0) \/ PointerUpEvent("touch", TRUE)) =>
                IF IsDef(snapped)
                THEN state' = "Completed" /\ successCalls' = successCalls + 1
                ELSE Untouched
          /\ (PointerDownEvent("mouse", 0) /\ ~IsDef(snapped)) => ev'.toast
          /\ (PointerUpEvent("touch", TRUE) /\ ~IsDef(snapped)) => UNCHANGED vars]_vars

\* a mouse press on a snapped point has completed a session that was snapping
C9_Witness ==
    /\ ev.kind = "pointerDown"
    /\ ev.cleaned
    /\ IsDef(snapped)
    /\ state = "Completed"
    /\ result = Some("success")
    /\ successCalls = 1 /\ cancelCalls = 0 /\ cleanupRuns = 1

\* C10: from a non-terminal state Escape ends Cancelled with
\* controller.cancel() called, Enter ends Completed with controller.success()
\* called, and both leave no current snap, whatever was snapped before.
C10_KeyCompletion ==
    [][state \notin Terminal =>
          /\ KeyDownEvent("Escape") =>
                state' = "Cancelled" /\ cancelCalls' = cancelCalls + 1 /\ ~IsDef(snapped')
          /\ KeyDownEvent("Enter") =>
                state' = "Completed" /\ successCalls' = successCalls + 1 /\ ~IsDef(snapped')]_vars

\* Enter has completed a session that had a current snap
C10_Witness ==
    /\ ev.kind = "keyDown"
    /\ ev.key = "Enter"
    /\ ev.hadSnap
    /\ ev.cleaned
    /\ state = "Completed"
    /\ result = Some("success")
    /\ ~IsDef(snapped)
    /\ successCalls = 1 /\ cancelCalls = 0 /\ cleanupRuns = 1

(***************************************************************************)
(* TrackingSnap and one tick of the handler, called on their own with a    *)
(* wider range of pointer positions, candidate axes and detected shapes.   *)
(* Every call is recorded in ev with its arguments (in), the calls it made *)
(* on its collaborators (calls) and what it returned (r).                  *)
(***************************************************************************)
AxisZ == [point |-> <<0, 0, 0>>, direction |-> <<0, 0, 1>>, name |-> "axis.z"]
\* two parallel rays of a tracked object, one pixel apart in the top view
RayA == [point |-> <<0, 2, 0>>, direction |-> <<0, -1, 0>>, name |-> "axis.y"]
RayB == [point |-> <<1, 2, 0>>, direction |-> <<0, -1, 0>>, name |-> "axis.y"]
\* a ray of the tracked object that crosses RayB at (1,1,0)
RayC == [point |-> <<-1, 1, 0>>, direction |-> <<1, 0, 0>>, name |-> "axis.x"]
\* an edge of two straight pieces, crossing the X axis at (1,0,0) and the Y
\* axis at (0,2,0)
EdgeL == [shapeType |-> "Edge",
          pieces |-> <<[point |-> <<1, 0, 0>>, direction |-> <<0, 1, 0>>],
                       [point |-> <<0, 2, 0>>, direction |-> <<1, 0, 0>>]>>]
Face == [shapeType |-> "Face", pieces |-> <<>>]

UnitPointers == {<<x, y>> : x \in -1 .. 2, y \in -1 .. 2}

GenNone == [axes |-> <<>>, rays |-> <<>>]
GenXY == [axes |-> <<AxisX, AxisY>>, rays |-> <<>>]
GenYX == [axes |-> <<AxisY, AxisX>>, rays |-> <<>>]
GenXYZ == [axes |-> <<AxisX, AxisY, AxisZ>>, rays |-> <<>>]
GenRay == [axes |-> <<AxisX, AxisY>>,
           rays |-> <<[axes |-> <<ObjectRay>>, objectName |-> "obj"]>>]
GenPar == [axes |-> <<>>, rays |-> <<[axes |-> <<RayA, RayB>>, objectName |-> "obj"]>>]
GenRap == [axes |-> <<>>, rays |-> <<[axes |-> <<RayB, RayA>>, objectName |-> "obj"]>>]
GenCross == [axes |-> <<>>, rays |-> <<[axes |-> <<RayB, RayC>>, objectName |-> "obj"]>>]
GenSsorc == [axes |-> <<>>, rays |-> <<[axes |-> <<RayC, RayB>>, objectName |-> "obj"]>>]

UnitTick(v, p, w, shapes, gen, o) ==
    [view |-> v, x |-> p[1], y |-> p[2], when |-> w, shapes |-> shapes, gen |-> gen,
     other |-> IF o THEN Some(PointResult(v, <<1, 0, 0>>)) ELSE Undefined]

AllTrue == <<TRUE, TRUE, TRUE>>

\* the arguments of TrackingSnap.snap
SnapInputs ==
    {UnitTick("top", p, AllTrue, <<>>, g, FALSE) :
        p \in UnitPointers,
        g \in {GenNone, GenXY, GenYX, GenRay, GenPar, GenRap, GenCross, GenSsorc}}
    \cup {UnitTick("top", p, AllTrue, sh, g, FALSE) :
        p \in UnitPointers, sh \in {<<Edge>>, <<EdgeL>>, <<Face, Edge>>}, g \in {GenXY, GenYX}}
    \cup {UnitTick("front", p, AllTrue, <<>>, g, FALSE) :
        p \in UnitPointers, g \in {GenXY, GenXYZ}}

\* the inputs of a tick
UnitTicks ==
    {UnitTick("top", p, w, <<>>, g, o) :
        p \in UnitPointers,
        w \in {AllTrue, <<FALSE, TRUE, TRUE>>, <<TRUE, TRUE, FALSE>>},
        g \in {GenNone, GenXY}, o \in BOOLEAN}

\* a third feature point, nearer to some pointers than the two before it
UnitFeaturePoints ==
    FeaturePoints \o <<[point |-> <<1, 1, 0>>, prompt |-> "prompt.center", hasWhen |-> TRUE]>>

UnitSessions ==
    {[preview |-> Undefined, validator |-> Some({<<1, 0, 0>>}),
      featurePoints |-> UnitFeaturePoints,
      snaps |-> <<"object", "tracking">>, referencePoint |-> TRUE],
     [preview |-> Undefined, validator |-> Undefined, featurePoints |-> <<>>,
      snaps |-> <<"tracking", "object">>, referencePoint |-> TRUE],
     [preview |-> Undefined, validator |-> Undefined, featurePoints |-> <<>>,
      snaps |-> <<"tracking">>, referencePoint |-> FALSE]}

UnitInit ==
    \E d \in UnitSessions :
        LET s == constructor(Fresh(d))
        IN /\ state = s.state
           /\ snapped = s.snapped
           /\ tempPoint = s.tempPoint
           /\ tempShapes = s.tempShapes
           /\ tempLines = s.tempLines
           /\ subscribed = s.subscribed
           /\ enableSnapTracking = s.enableSnapTracking
           /\ result = s.result
           /\ live = s.live
           /\ nextId = s.nextId
           /\ inputOpen = s.inputOpen
           /\ floatTip = s.floatTip
           /\ data = s.data
           /\ guides = s.guides
           /\ successCalls = s.successCalls
           /\ cancelCalls = s.cancelCalls
           /\ cleanupRuns = s.cleanupRuns
           /\ ev = s.ev
           /\ TracingInit
           /\ PolygonInit

\* the call ends in s and is recorded whatever it did
Record(s) == Bounded(s) /\ Assign(s)

\* no call is under observation: the last step constructed or arranged the
\* objects (setting a Config property nobody reads arranges nothing, so every
\* state a call leaves is also a state the next call can start in)
Arranged == ev.kind \in {"constructor", "arranged"}

\* trackingSnap.snap(detected)
SnapCall ==
    /\ Arranged
    /\ nextId <= MaxArranged
    /\ \E in \in SnapInputs :
         LET s0 == Begin([NewEv("snap") EXCEPT !.in = in])
         IN \E o \in snap(s0, detectShapes(s0, in), in.gen) :
                Record([o.s EXCEPT !.ev.r = o.r])

\* handler.pointerMove(view, event)
TickCall ==
    /\ Arranged
    /\ nextId <= MaxArranged
    /\ \E in \in UnitTicks :
         \E s \in pointerMove(Begin([NewEv("pointerMove") EXCEPT !.in = in]), in) :
             Record(s)

RemoveDynamicObjectCall ==
    /\ Record(removeDynamicObject(Begin(NewEv("arranged"))))

ClearCall ==
    /\ Record(clear(Begin(NewEv("arranged"))))

ConfigSetCall ==
    \E property \in Properties : Record(configChanged(Begin(NewEv("arranged")), property))

\* TrackingSnap on its own
SnapNext ==
    \/ SnapCall
    \/ RemoveDynamicObjectCall
    \/ ClearCall
    \/ ConfigSetCall

SnapSpec == UnitInit /\ [][SnapNext]_vars

\* the handler's tick on its own
TickNext ==
    \/ TickCall
    \/ ConfigSetCall

TickSpec == UnitInit /\ [][TickNext]_vars

\* C11: a key among '#', '-', '0'..'9' moves the session to Inputting and opens
\* the input channel, another key that is neither Escape nor Enter changes
\* nothing; a submission whose text inputError rejects changes nothing (the
\* state stays what it was, the snap is kept, the controller is not
\* signalled); a submission it accepts makes getPointFromInput's result the
\* current snap and completes the session with success.
C11_NumericEntry ==
    [][/\ KeyDownEvent("5") => (state' = "Inputting" /\ inputOpen')
       /\ KeyDownEvent("a") => UNCHANGED vars
       /\ InputSubmittedEvent(TRUE) => UNCHANGED vars
       /\ (InputSubmittedEvent(FALSE) /\ state # "Completed") =>
             /\ snapped' = Some(SubmittedPoint)
             /\ state' = "Completed"
             /\ successCalls' = successCalls + 1
             /\ cancelCalls' = cancelCalls]_vars

\* an accepted submission has completed a session that was Inputting
C11_Witness ==
    /\ ev.kind = "inputSubmitted"
    /\ ev.cleaned
    /\ state = "Completed"
    /\ snapped = Some(SubmittedPoint)
    /\ result = Some("success")
    /\ ~inputOpen
    /\ successCalls = 1 /\ cancelCalls = 0 /\ cleanupRuns = 1

IsHandleSnappedCall(c) == c.op = "handleSnapped"
\* the provider calls of the tick under observation
snapCalls == SelectSeq(ev.calls, IsSnapCall)
handleSnappedCalls == SelectSeq(ev.calls, IsHandleSnappedCall)

\* the feature points whose guard is absent or returns true in the tick
Qualifying(in) ==
    {i \in DOMAIN data.featurePoints : ~data.featurePoints[i].hasWhen \/ in.when[i]}
FeatureDistance(in, i) ==
    screenDistance(in.view, in.x, in.y, data.featurePoints[i].point)
\* those of them at the minimum distance, when that is within SnapDistance
Nearest(in) ==
    {i \in Qualifying(in) :
        /\ \A j \in Qualifying(in) : FeatureDistance(in, i) <= FeatureDistance(in, j)
        /\ FeatureDistance(in, i) < SnapDistance * SnapDistance}
FeatureResult(in, i) ==
    [view |-> in.view, point |-> data.featurePoints[i].point,
     info |-> data.featurePoints[i].prompt, shapes |-> <<>>,
     refPoint |-> Undefined, distance |-> Undefined]

\* C12: in a tick, when the nearest of the feature points whose guard is
\* absent or true is strictly within SnapDistance, the current snap is that
\* feature point (the first of the list among equally near ones) and no
\* provider's snap() is invoked; and only then is a tick decided without the
\* providers, so a feature point whose guard is false never wins.
C12_FeaturePointPrecedence ==
    ev.kind = "pointerMove" =>
        /\ Nearest(ev.in) # {} =>
              /\ snapCalls = <<>>
              /\ \E i \in Nearest(ev.in) :
                    /\ \A j \in Nearest(ev.in) : i <= j
                    /\ snapped = Some(FeatureResult(ev.in, i))
        /\ (ev.found /\ snapCalls = <<>>) => Nearest(ev.in) # {}

\* the third feature point has won over a farther one that is also within
\* SnapDistance and comes first in the list
C12_Witness ==
    /\ ev.kind = "pointerMove"
    /\ Nearest(ev.in) = {3}
    /\ 1 \in Qualifying(ev.in)
    /\ FeatureDistance(ev.in, 1) < SnapDistance * SnapDistance
    /\ snapped = Some(FeatureResult(ev.in, 3))
    /\ IsDef(ev.in.other)

\* the session's validator accepts the provider result r
Accepted(r) ==
    IsDef(r) /\ (IsDef(data.validator) => Val(r).point \notin Val(data.validator))

\* C13: in a tick in which no feature point qualifies, the providers are
\* consulted in the order of this.snaps, up to and including the first whose
\* result data.validator accepts; that result is the current snap; a result
\* the validator rejects is not, and the chain goes on after it.
C13_FirstMatchWins ==
    (ev.kind = "pointerMove" /\ Nearest(ev.in) = {}) =>
        LET n == Len(snapCalls)
        IN /\ 1 <= n /\ n <= Len(data.snaps)
           /\ \A k \in 1 .. n :
                 /\ snapCalls[k].by = data.snaps[k]
                 /\ snapCalls[k].ok = Accepted(snapCalls[k].r)
                 /\ snapCalls[k].by = "object" => snapCalls[k].r = ev.in.other
                 /\ k < n => ~Accepted(snapCalls[k].r)
                 /\ (IsDef(snapCalls[k].r) /\ ~Accepted(snapCalls[k].r)) =>
                       snapped # snapCalls[k].r
           /\ ~Accepted(snapCalls[n].r) => n = Len(data.snaps)
           /\ Accepted(snapCalls[n].r) => snapped = snapCalls[n].r

\* the first provider's result was rejected by the validator and the second
\* provider's result has become the current snap
C13_Witness ==
    /\ ev.kind = "pointerMove"
    /\ Nearest(ev.in) = {}
    /\ Len(snapCalls) = 2
    /\ IsDef(snapCalls[1].r) /\ ~Accepted(snapCalls[1].r)
    /\ Accepted(snapCalls[2].r)
    /\ snapped = snapCalls[2].r

\* the first of two providers was accepted and the second never consulted
C13_WitnessStop ==
    /\ ev.kind = "pointerMove"
    /\ Nearest(ev.in) = {}
    /\ Len(data.snaps) = 2
    /\ Len(snapCalls) = 1
    /\ snapped = snapCalls[1].r

\* C14: in every tick, after the feature-point check and the provider chain,
\* handleSnapped is invoked exactly once on every provider that defines it and
\* on no other, with the session's current snap as argument, whichever
\* provider or feature point produced it.
C14_HandleSnappedHook ==
    ev.kind = "pointerMove" =>
        /\ \A i \in DOMAIN data.snaps :
              Cardinality({k \in DOMAIN handleSnappedCalls :
                              handleSnappedCalls[k].by = data.snaps[i]})
                  = IF data.snaps[i] \in DefinesHandleSnapped THEN 1 ELSE 0
        /\ \A k \in DOMAIN handleSnappedCalls : handleSnappedCalls[k].r = snapped
        /\ \A i, j \in DOMAIN ev.calls :
              (ev.calls[i].op = "handleSnapped" /\ ev.calls[j].op = "snap") => j < i

\* TrackingSnap, which returned nothing itself, was told the snap that the
\* other provider produced
C14_Witness ==
    /\ ev.kind = "pointerMove"
    /\ Len(snapCalls) = 2
    /\ snapCalls[1].by = "tracking" /\ ~IsDef(snapCalls[1].r)
    /\ snapCalls[2].by = "object"
    /\ IsDef(snapped)
    /\ snapped = snapCalls[2].r
    /\ Len(handleSnappedCalls) = 1
    /\ handleSnappedCalls[1].by = "tracking"
    /\ handleSnappedCalls[1].r = snapped

\* the axes the generators offered in the call under observation
Offered(in) ==
    (IF data.referencePoint THEN Range(in.gen.axes) ELSE {})
    \cup UNION {Range(ray.axes) : ray \in Range(in.gen.rays)}
\* the candidate list TrackingSnap builds in that call
Candidates == detectTracking(St, ev.in.view, ev.in.x, ev.in.y, ev.in.gen)
\* the offset along the axis of its point nearest to the pointer ray
Offset(in, axis) ==
    dot(sub(nearestTo(axis, rayAt(in.view, in.x, in.y)), axis.point), axis.direction)

\* C15: an axis whose nearest point to the pointer ray lies behind its origin
\* is not in the candidate list, whatever its screen distance; the point of
\* every candidate kept lies on its axis at a non-negative offset.
C15_BehindOriginExcluded ==
    ev.kind = "snap" =>
        /\ \A a \in Offered(ev.in) :
              Offset(ev.in, a) < 0 => \A i \in DOMAIN Candidates : Candidates[i].axis # a
        /\ \A i \in DOMAIN Candidates :
              \E k \in 0 .. 4 :
                  Candidates[i].point
                      = add(Candidates[i].axis.point, multiply(Candidates[i].axis.direction, k))

\* an axis on which the pointer lies, but behind its origin, was left out
\* while another axis was kept
C15_Witness ==
    /\ ev.kind = "snap"
    /\ \E a \in Offered(ev.in) :
          /\ Offset(ev.in, a) < 0
          /\ rayDistanceAtScreen(ev.in.view, ev.in.x, ev.in.y, a) = 0
    /\ Len(Candidates) = 1
    /\ IsDef(ev.r)

\* the snap call under observation ran with tracking enabled
Tracked == ev.kind = "snap" /\ enableSnapTracking
\* the intersections computed in that call, by kind ("edge" or "axis")
intersections(by) ==
    {k \in DOMAIN ev.calls : ev.calls[k].op = "intersect" /\ ev.calls[k].by = by}
\* the first shape detected under the pointer is an edge
EdgeFirst(in) == in.shapes # <<>> /\ in.shapes[1].shapeType = "Edge"
\* the result is the plain snap to the candidate c
PlainResult(r, c) ==
    /\ IsDef(r)
    /\ Val(r).point = c.point
    /\ Val(r).info = c.axis.name
    /\ Val(r).shapes = <<>>

C16_WitnessEdge ==
    /\ Tracked
    /\ Len(Candidates) = 1
    /\ EdgeFirst(ev.in)
    /\ IsDef(ev.r)
    /\ Val(ev.r).point # Candidates[1].point

\* the edge branch has nothing to offer in the call under observation
NoEdgeIntersection ==
    \/ ~EdgeFirst(ev.in)
    \/ intersectionPoints(ev.in.shapes[1], Candidates) = <<>>
\* the same generators, each returning its axes in the opposite order
Swapped(gen) ==
    [axes |-> Reverse(gen.axes),
     rays |-> [i \in DOMAIN gen.rays |->
                 [gen.rays[i] EXCEPT !.axes = Reverse(gen.rays[i].axes)]]]
\* exactly two candidates, crossing lines, no edge intersection
TwoCrossing ==
    /\ Tracked
    /\ Len(Candidates) = 2
    /\ NoEdgeIntersection
    /\ IsDef(intersect(Candidates[1].axis, Candidates[2].axis))
\* the result is the crossing point of the two candidates, labelled as an
\* intersection, and every outcome of the call with the generator orders
\* swapped has the same point
CrossingResult ==
    LET point == Val(intersect(Candidates[1].axis, Candidates[2].axis))
    IN /\ IsDef(ev.r)
       /\ Val(ev.r).point = point
       /\ Val(ev.r).info = "snap.intersection"
       /\ Val(ev.r).shapes = <<>>
       /\ intersect(Candidates[2].axis, Candidates[1].axis) = Some(point)
       /\ \A o \in snap(St, detectShapes(St, ev.in), Swapped(ev.in.gen)) :
              IsDef(o.r) /\ Val(o.r).point = point

\* C17 as stated: two surviving axes whose lines cross, no edge intersection:
\* the result is the crossing point with the intersection label and two guide
\* lines, the same point for both generator orders.
C17_AxisAxisIntersection ==
    TwoCrossing => CrossingResult /\ Len(tempLines[ev.in.view]) = 2

\* C17 amended: as above, with one guide line for each of the two axes whose
\* origin is not the crossing point itself.
C17_AxisAxisIntersectionAmended ==
    TwoCrossing =>
        /\ CrossingResult
        /\ Len(tempLines[ev.in.view])
             = Cardinality({i \in 1 .. 2 : Candidates[i].axis.point # Val(ev.r).point})
        /\ Range(tempLines[ev.in.view]) \subseteq guides \cap live

\* two rays of an object crossing away from both origins: two guide lines
C17_Witness ==
    /\ TwoCrossing
    /\ ev.in.gen \in {GenCross, GenSsorc}
    /\ Val(ev.r).point = <<1, 1, 0>>
    /\ Len(tempLines[ev.in.view]) = 2

\* the two axes of a reference point cross at the reference point: no guide
C17_WitnessOrigin ==
    /\ TwoCrossing
    /\ Val(ev.r).point = <<0, 0, 0>>
    /\ tempLines[ev.in.view] = <<>>

\* the candidate an ascending stable sort by distance puts first
Best ==
    Candidates[CHOOSE i \in DOMAIN Candidates :
                   \A j \in DOMAIN Candidates :
                       \/ Candidates[i].distance < Candidates[j].distance
                       \/ Candidates[i].distance = Candidates[j].distance /\ i <= j]

\* C18: two surviving axes whose lines do not meet (parallel or skew), no edge
\* intersection: the result is the nearest point of the axis with the smaller
\* screen distance to the pointer (the first of the two on a tie), whichever
\* order the generators produced them in.
C18_ParallelFallback ==
    (/\ Tracked
     /\ Len(Candidates) = 2
     /\ NoEdgeIntersection
     /\ ~IsDef(intersect(Candidates[1].axis, Candidates[2].axis)))
    => /\ IsDef(ev.r)
       /\ Val(ev.r).point = Best.point
       /\ Val(ev.r).refPoint = Some(Best.axis.point)

\* the points the detected edge has in common with the surviving axes
EdgePoints ==
    {x.intersect : x \in Range(intersectionPoints(ev.in.shapes[1], Candidates))}

\* C19: the first detected shape is an edge and it meets at least one
\* surviving axis: the result is, among all points the edge has in common with
\* the surviving axes, the one with the smallest screen distance to the
\* pointer, in preference to a plain axis or axis-axis result.
C19_EdgeIntersectionPriority ==
    (Tracked /\ EdgeFirst(ev.in) /\ Candidates # <<>> /\ EdgePoints # {})
    => /\ IsDef(ev.r)
       /\ Val(ev.r).shapes = <<ev.in.shapes[1]>>
       /\ Val(ev.r).info = "snap.intersection"
       /\ Val(ev.r).point \in EdgePoints
       /\ \A q \in EdgePoints :
              screenDistance(ev.in.view, ev.in.x, ev.in.y, Val(ev.r).point)
                  <= screenDistance(ev.in.view, ev.in.x, ev.in.y, q)

\* C20: a snap call made while Config.enableSnapTracking is false returns
\* absent, queries neither candidate generator, and creates, removes and
\* records no guide handle: _tempLines and the displayed visuals are unchanged.
C20_TrackingDisabled ==
    [][(ev.kind # "snap" /\ ev'.kind = "snap" /\ ~enableSnapTracking)
       => /\ ~IsDef(ev'.r)
          /\ ev'.calls = <<>>
          /\ tempLines' = tempLines
          /\ live' = live
          /\ guides' = guides
          /\ nextId' = nextId]_vars

\* a disabled call that had a candidate within reach and left the recorded
\* guide of an earlier call in place
C20_Witness ==
    /\ ev.kind = "snap"
    /\ ~enableSnapTracking
    /\ Candidates # <<>>
    /\ ~IsDef(ev.r)
    /\ ev.calls = <<>>
    /\ tempLines[ev.in.view] # <<>>

\* the axes of the candidate list
CandidateAxes == {Candidates[i].axis : i \in DOMAIN Candidates}

\* C21: an offered axis is rejected for its distance exactly when its screen
\* distance to the pointer exceeds SnapDistance: an axis not behind its origin
\* is a candidate if and only if its distance is at most the threshold.
C21_DistanceThreshold ==
    ev.kind = "snap" =>
        \A a \in Offered(ev.in) :
            Offset(ev.in, a) >= 0 =>
                (a \in CandidateAxes
                 <=> rayDistanceAtScreen(ev.in.view, ev.in.x, ev.in.y, a)
                         <= SnapDistance * SnapDistance)

\* the step is a TrackingSnap.snap call
IsSnapStep == ev.kind # "snap" /\ ev'.kind = "snap"

\* C22: when a snap call records its guide handles on a view, every handle an
\* earlier call recorded on that view has been removed from the display, also
\* when removeDynamicObject was not called in between.
C22_GuidesReplaced ==
    [][(IsSnapStep /\ IsDef(ev'.r))
       => Range(tempLines[ev'.in.view]) \cap live' = {}]_vars

\* no view has a recorded guide handle
NoTempLines == \A v \in Views : tempLines[v] = <<>>

\* C23: after removeDynamicObject returns, no guide this provider displayed is
\* still displayed, none was passed to removeMesh twice and _tempLines is
\* empty; called with nothing recorded, as right after itself, it removes
\* nothing.
C23_RemoveDynamicObject ==
    [][RemoveDynamicObjectCall
       => /\ guides' = {}
          /\ NoTempLines'
          /\ ~ev'.dblRemove
          /\ NoTempLines => (live' = live /\ guides' = guides)]_vars

\* the Config properties TrackingSnap reacts to
SnapProperties == {"snapType", "enableSnapTracking", "enableSnap"}

\* C24: a TrackingSnap is subscribed to Config from construction; while it is
\* subscribed a change of snapType, enableSnapTracking or enableSnap removes
\* all its guides and a change of another property does nothing; when the
\* session ends (completed, cancelled or disposed) it is unsubscribed, stays
\* so, and later Config changes touch none of its guides.
C24_ConfigSubscription ==
    /\ [](ev.kind = "constructor" => subscribed)
    /\ [][
          /\ \A property \in Properties :
                ConfigurationSet(property) =>
                    IF subscribed /\ property \in SnapProperties
                    THEN /\ NoTempLines'
                         /\ recordedLines \cap live' = {}
                         /\ live' = live \ recordedLines
                    ELSE /\ tempLines' = tempLines
                         /\ live' = live
                         /\ subscribed' = subscribed
          /\ (state \notin Terminal /\ state' \in Terminal) => ~subscribed'
          /\ ~subscribed => ~subscribed'
       ]_vars

(***************************************************************************)
(* Tracing on its own: the calls History and Transaction make, and the     *)
(* settling of the uploader's requests in any order                        *)
(***************************************************************************)
handlerVars == <<state, snapped, tempPoint, tempShapes, tempLines, subscribed,
                 enableSnapTracking, result, live, nextId, inputOpen, floatTip, data,
                 guides, successCalls, cancelCalls, cleanupRuns, ev>>

Tr ==
    [nodes |-> nodes, currentId |-> currentId, synced |-> synced,
     lastSyncedId |-> lastSyncedId, changes |-> changes, requests |-> requests,
     createCalls |-> createCalls, tev |-> tev]

\* the state at the start of a call
TrBegin(op) == [Tr EXCEPT !.tev = [op |-> op, threw |-> FALSE]]

TrAssign(t) ==
    /\ nodes' = t.nodes
    /\ currentId' = t.currentId
    /\ synced' = t.synced
    /\ lastSyncedId' = t.lastSyncedId
    /\ changes' = t.changes
    /\ requests' = t.requests
    /\ createCalls' = t.createCalls
    /\ tev' = t.tev
    /\ UNCHANGED <<handlerVars, polygonVars>>

\* the ids of the nodes of the tree
nodeIds == {nodes[i].id : i \in DOMAIN nodes}

\* tracing.push(record): every record has a uuid of its own
TracePushOf(id) ==
    /\ id \notin nodeIds
    /\ \A other \in RecordIds : other < id => other \in nodeIds
    /\ TrAssign(push(TrBegin("push"), id))

TracePush == \E id \in RecordIds : TracePushOf(id)

TraceUndo ==
    /\ TrAssign(undo(TrBegin("undo")))

\* tracing.redo(childId) with the id of a node or with an id the tree does
\* not have
TraceRedoOf(id) ==
    /\ TrAssign(redo(TrBegin("redo"), id))

TraceRedo == \E id \in nodeIds \cup {ForeignId} : TraceRedoOf(id)

\* a fetch of the uploader settles
TraceSettleOf(req, outcome) ==
    /\ req \in requests
    /\ TrAssign(settled(TrBegin("settled"), req, outcome))

TraceSettle == \E req \in requests, outcome \in Outcomes : TraceSettleOf(req, outcome)

TraceInit == Init /\ ~IsDef(data.preview)

TraceNext ==
    \/ TracePush
    \/ TraceUndo
    \/ TraceRedo
    \/ TraceSettle

TraceSpec == TraceInit /\ [][TraceNext]_vars

\* the node with this id, for an id of the tree
nodeOf(id) == Val(mapGet(nodes, id))
\* the parent id of the current node, absent at the root
parentOfCurrent == nodeOf(currentId).parentId

\* C25: push(r) makes r.id the current id and gives r's node the previous
\* current id as parent; undo moves the current id to the parent of the
\* current node and leaves it at the root; redo(id) makes id the current id;
\* undo and redo leave the tree as it is.
C25_FollowsHistory ==
    [][/\ \A id \in RecordIds :
             TracePushOf(id) =>
                 /\ currentId' = id
                 /\ mapGet(nodes', id)
                        = Some([id |-> id, parentId |-> Some(currentId), children |-> <<>>])
       /\ (TraceUndo /\ currentId \in nodeIds) =>
             /\ currentId' = IF IsDef(parentOfCurrent) THEN Val(parentOfCurrent)
                             ELSE currentId
             /\ nodes' = nodes
       /\ \A id \in nodeIds \cup {ForeignId} :
             TraceRedoOf(id) => currentId' = id /\ nodes' = nodes
      ]_vars

\* push r1, push r2, undo, undo, redo(r1): r2 is a child of r1, r1 a child of
\* the root, and the current id is r1 after the redo
C25_Witness ==
    /\ tev.op = "redo"
    /\ currentId = 1
    /\ Len(nodes) = 3
    /\ nodeOf(1).parentId = Some(RootId)
    /\ nodeOf(2).parentId = Some(1)
    /\ nodeOf(1).children = <<2>>

\* C26: a push, also after undo, makes the record the current node, keeps
\* every existing node with its id and its parent, and changes no children
\* list except that of the node that was current, which gets the new id
\* appended: the tree branches, nothing is overwritten.
C26_Branches ==
    [][\A id \in RecordIds :
          TracePushOf(id) =>
              /\ currentId' = id
              /\ Len(nodes') = Len(nodes) + 1
              /\ nodes'[Len(nodes')].id = id
              /\ \A i \in DOMAIN nodes :
                    /\ nodes'[i].id = nodes[i].id
                    /\ nodes'[i].parentId = nodes[i].parentId
                    /\ nodes'[i].children
                          = IF nodes[i].id = currentId
                            THEN Append(nodes[i].children, id)
                            ELSE nodes[i].children
      ]_vars

\* push r1, undo, push r2: r1 and r2 are both children of the root and r2 is
\* the current node
C26_Witness ==
    /\ tev.op = "push"
    /\ currentId = 2
    /\ Len(nodes) = 3
    /\ nodeOf(1).parentId = Some(RootId)
    /\ nodeOf(2).parentId = Some(RootId)
    /\ nodeOf(RootId).children = <<1, 2>>
    /\ nodeOf(RootId).parentId = Undefined

\* C27: createData, the POST of the whole tree, is called at most once in the
\* life of a Tracing, whatever the commits and however the requests settle.
C27_CreateDataOnce == createCalls <= 1

\* candidate i comes before candidate j in an ascending stable sort
Before(i, j) ==
    \/ Candidates[i].distance < Candidates[j].distance
    \/ Candidates[i].distance = Candidates[j].distance /\ i <= j
\* the candidate such a sort puts second
SecondBest ==
    Candidates[CHOOSE i \in DOMAIN Candidates :
                   /\ Candidates[i] # Best
                   /\ \A j \in DOMAIN Candidates : Candidates[j] # Best => Before(i, j)]

\* C28: three or more surviving axes, no edge intersection: the result is the
\* intersection of the lines of the two candidates with the lowest screen
\* distances (generator order among equal distances) and, when these do not
\* meet, the nearest point of the candidate with the lowest distance.
C28_BestPair ==
    (Tracked /\ Len(Candidates) >= 3 /\ NoEdgeIntersection)
    => LET point == intersect(Best.axis, SecondBest.axis)
       IN /\ IsDef(ev.r)
          /\ Val(ev.r).refPoint = Some(Best.axis.point)
          /\ Val(ev.r).point = IF IsDef(point) THEN Val(point) ELSE Best.point
          /\ Val(ev.r).info = IF IsDef(point) THEN "snap.intersection" ELSE Best.axis.name

\* the handles of the shapes data.preview(undefined) returns, displayed on a
\* context that has displayed nothing before
PrimedPreview ==
    IF IsDef(data.preview)
    THEN Some([i \in 1 .. Val(data.preview)[1] |-> i - 1])
    ELSE Undefined

\* C29: a new handler is Idle with no current snap and no point marker, has
\* displayed exactly the shapes of data.preview(undefined), and its
\* controller is unresolved; controller.success() or controller.cancel() from
\* outside then takes the session to Completed or Cancelled and runs cleanup,
\* which removes the preview and unsubscribes the providers.
C29_Construction ==
    /\ [](ev.kind = "constructor" =>
             /\ state = "Idle"
             /\ ~IsDef(snapped)
             /\ ~IsDef(tempPoint)
             /\ ~IsDef(result)
             /\ tempShapes = PrimedPreview
             /\ live = (IF IsDef(tempShapes) THEN Range(Val(tempShapes)) ELSE {})
             /\ guides = {}
             /\ cleanupRuns = 0)
    /\ [][ev.kind = "constructor" =>
             /\ ControllerSuccess =>
                   /\ state' = "Completed"
                   /\ result' = Some("success")
                   /\ cleanupRuns' = 1
                   /\ live' = {}
                   /\ ~IsDef(tempShapes')
                   /\ ~subscribed'
             /\ ControllerCancel =>
                   /\ state' = "Cancelled"
                   /\ result' = Some("cancel")
                   /\ cleanupRuns' = 1
                   /\ live' = {}
                   /\ ~IsDef(tempShapes')
                   /\ ~subscribed'
         ]_vars

\* a session with a preview, cancelled from outside right after construction
C29_Witness ==
    /\ ev.kind = "onCancelled"
    /\ state = "Cancelled"
    /\ IsDef(data.preview)
    /\ nextId = Val(data.preview)[1]
    /\ nextId > 0
    /\ live = {}
    /\ cleanupRuns = 1

\* the step is a pointer press or release that resolves the controller with
\* success
PointerCompletes ==
    /\ ev'.kind \in {"pointerDown", "pointerUp"}
    /\ ~IsDef(result)
    /\ result' = Some("success")
\* the snap is one findSnapPoint builds from a feature point of the session
FromFeaturePoint(r) ==
    /\ IsDef(r)
    /\ \E i \in DOMAIN data.featurePoints :
          /\ Val(r).point = data.featurePoints[i].point
          /\ Val(r).info = data.featurePoints[i].prompt
          /\ Val(r).shapes = <<>>

C30_WitnessFeature ==
    /\ ev.kind = "pointerDown"
    /\ result = Some("success")
    /\ FromFeaturePoint(snapped)
    /\ ~Accepted(snapped)

\* C31: after any sequence of push, undo and redo(id) calls, whatever id is
\* passed to redo, the current id is the id of a node of the tree, and so
\* undo() finds its node and does not throw.
C31_CurrentNodeInTree ==
    /\ currentId \in nodeIds
    /\ ~tev.threw

\* the callers that only redo to a node of the tree
TreeRedo == \E id \in nodeIds : TraceRedoOf(id)

TreeNext ==
    \/ TracePush
    \/ TraceUndo
    \/ TreeRedo
    \/ TraceSettle

TreeSpec == TraceInit /\ [][TreeNext]_vars

\* how often id occurs in a children list
occurrences(children, id) == Cardinality({i \in DOMAIN children : children[i] = id})

\* following parentId from id for at most fuel steps ends at the root
RECURSIVE reachesRoot(_, _)
reachesRoot(id, fuel) ==
    /\ mapHas(nodes, id)
    /\ \/ ~IsDef(nodeOf(id).parentId)
       \/ /\ fuel > 0
          /\ reachesRoot(Val(nodeOf(id).parentId), fuel - 1)

\* C32: after any sequence of push (records with pairwise distinct ids), undo
\* and redo of an existing node id, the tree has exactly one node without a
\* parent (the root), every other node's parentId names an existing node whose
\* children list holds that node's id exactly once, and following parentId
\* from any node reaches the root.
C32_WellFormed ==
    /\ Cardinality({i \in DOMAIN nodes : ~IsDef(nodes[i].parentId)}) = 1
    /\ \A i \in DOMAIN nodes :
          IsDef(nodes[i].parentId) =>
              /\ mapHas(nodes, Val(nodes[i].parentId))
              /\ occurrences(nodeOf(Val(nodes[i].parentId)).children, nodes[i].id) = 1
    /\ \A i \in DOMAIN nodes : reachesRoot(nodes[i].id, Len(nodes))

\* C32 witness: a tree with a branch (two children of one node) and a node
\* two levels below the root, after an undo and a redo
C32_Witness ==
    /\ \E i \in DOMAIN nodes : Len(nodes[i].children) = 2
    /\ \E i, j \in DOMAIN nodes :
          /\ nodes[i].parentId = Some(nodes[j].id)
          /\ IsDef(nodes[j].parentId)
    /\ tev.op = "redo"

\* the ids of the changes a request carries in its body: the nodes of the
\* serialized tree of a POST, the commits of a PATCH
bodyIds(req) ==
    IF req.method = "POST"
    THEN {req.payload[i].id : i \in DOMAIN req.payload}
    ELSE {req.commits[i].change.id : i \in DOMAIN req.commits}

pendingIds == {changes[i].change.id : i \in DOMAIN changes}

\* C33: no committed change is lost by the uploader: a change passed to
\* commitChange enters the pending changes list, and in every interleaving of
\* commitChange calls with the completions of the requests in flight a change
\* leaves the pending list only in the step in which a request that carries it
\* in its body completes successfully (a 409 counted as success).
C33_NoChangeLost ==
    [][
        /\ \A id \in RecordIds : TracePushOf(id) => id \in pendingIds'
        /\ \A id \in pendingIds :
              \/ id \in pendingIds'
              \/ \E req \in requests, outcome \in {"ok", "conflict"} :
                    /\ TraceSettleOf(req, outcome)
                    /\ id \in bodyIds(req)
    ]_vars

\* the requests a step issues
issued == requests' \ requests

Po == [stepData |-> stepData, controller |-> controller, returned |-> returned,
       pev |-> pev]

PoAssign(p) ==
    /\ stepData' = p.stepData
    /\ controller' = p.controller
    /\ returned' = p.returned
    /\ pev' = p.pev
    /\ UNCHANGED <<handlerVars, tracingVars>>

\* an iteration whose pick resolves with a point
PolyPick ==
    /\ ~IsDef(returned)
    /\ Len(stepData) < MaxPicks
    /\ \E out \in execute(stepOf(Po)) :
          /\ IsDef(out.picked)
          /\ PoAssign(executeSteps(Po, out))

\* an iteration whose pick resolves with no data
PolyEnd ==
    /\ ~IsDef(returned)
    /\ \E out \in execute(stepOf(Po)) :
          /\ ~IsDef(out.picked)
          /\ PoAssign(executeSteps(Po, out))

PolyNext ==
    \/ PolyPick
    \/ PolyEnd

PolySpec == TraceInit /\ [][PolyNext]_vars

\* the points stored before the step
vertices == {stepData[i].point : i \in DOMAIN stepData}

\* the step stores a point and ends the loop
Closes ==
    /\ Len(stepData') = Len(stepData) + 1
    /\ IsDef(returned')

\* the loop of executeSteps as the claim describes it, without its last
\* clause
PickLoop ==
    /\ Val(controller').id = pev'.controllers
    /\ pev'.controllers = pev.controllers + 1
    /\ \/ stepData' = stepData
       \/ \E point \in PickPoints : stepData' = Append(stepData, [point |-> point])
    /\ IsDef(returned') <=>
          \/ stepData' = stepData
          \/ /\ Len(stepData') > 1
             /\ near(stepData'[1].point, stepData'[Len(stepData')].point)
    /\ stepData' = stepData =>
          returned' = Some(Val(controller').status = "success")
    /\ Closes => returned' = Some(TRUE)

\* C35: every iteration of executeSteps creates a fresh AsyncController and
\* appends the picked point to stepData; the loop ends only when a pick
\* resolves with no data, returning whether that controller's result status
\* is success, or when the picked point is within Precision.Distance of the
\* first point with more than one point stored, returning true; and a polygon
\* closed this way has at least three distinct picked vertices before the
\* closing point.
C35_PickLoop ==
    [][
        /\ PickLoop
        /\ Closes => Cardinality(vertices) >= 3
    ]_vars

====
